---- MODULE Spec2Model ----
(***************************************************************************)
(* Model of the curb localizer node (CurbLocalizerNode.cpp): the three     *)
(* subscription callbacks, publish_odom step by step, and the free         *)
(* function transform_points_to_odom.                                      *)
(*                                                                         *)
(* Distances are integers (metres).  Pointers are modelled by values with  *)
(* a distinguished null (NoLane, NoSection, NoRoad, "unset").  A           *)
(* dereference of a null pointer is undefined behaviour: the model takes   *)
(* it as a choice between the process dying (pc = "crashed") and the       *)
(* function carrying on with a garbage value; the site is recorded in ub.  *)
(***************************************************************************)
EXTENDS Integers, Sequences, FiniteSets, TLC

\* ------------------------------------------------------------------ bounds
MaxPoses == 2

\* ------------------------------------------------------- program constants
\* the literal 20 of lines 81 and 83
LOOKAHEAD == 20

\* ---------------------------------------------------------------- the map
NoRoad == ""
NoSection == [road |-> "", idx |-> 0]
NoLane == [road |-> "", sec |-> 0, id |-> 0, type |-> "null"]

Ln(r, k, i, t) == [road |-> r, sec |-> k, id |-> i, type |-> t]

RoadIds == {"81", "953", "7", "12"}

\* the loaded map (this->map): per road its origin on the x axis, its length
\* and its lane sections, each with s0, end and the lanes in scan order
Roads ==
  [r \in RoadIds |->
     CASE r = "81" ->
            [x0 |-> 0, length |-> 40,
             sections |-> <<
               [s0 |-> 0, end |-> 20,
                lanes |-> << Ln("81", 1, -1, "driving"), Ln("81", 1, 0, "none"),
                             Ln("81", 1, 1, "driving"), Ln("81", 1, 2, "shoulder") >>],
               [s0 |-> 20, end |-> 40,
                lanes |-> << Ln("81", 2, -2, "shoulder"), Ln("81", 2, -1, "driving"),
                             Ln("81", 2, 0, "none"), Ln("81", 2, 1, "driving"),
                             Ln("81", 2, 2, "shoulder") >>] >>]
       [] r = "953" ->
            [x0 |-> 40, length |-> 40,
             sections |-> <<
               [s0 |-> 0, end |-> 30,
                lanes |-> << Ln("953", 1, -3, "shoulder"), Ln("953", 1, -2, "shoulder"),
                             Ln("953", 1, -1, "driving"), Ln("953", 1, 1, "driving"),
                             Ln("953", 1, 2, "sidewalk") >>],
               [s0 |-> 30, end |-> 40,
                lanes |-> << Ln("953", 2, -1, "driving"), Ln("953", 2, 1, "driving") >>] >>]
       [] r = "7" ->
            [x0 |-> 80, length |-> 10,
             sections |-> <<
               [s0 |-> 0, end |-> 10,
                lanes |-> << Ln("7", 1, -2, "shoulder"), Ln("7", 1, -1, "driving"),
                             Ln("7", 1, 1, "driving"), Ln("7", 1, 2, "shoulder"),
                             Ln("7", 1, 3, "shoulder") >>] >>]
       [] r = "12" ->
            [x0 |-> 100, length |-> 90,
             sections |-> <<
               [s0 |-> 0, end |-> 90,
                lanes |-> << Ln("12", 1, -2, "shoulder"), Ln("12", 1, -1, "driving"),
                             Ln("12", 1, 1, "driving"), Ln("12", 1, 2, "shoulder") >>] >>] ]

SectionOf(sec) == Roads[sec.road].sections[sec.idx]

AllSections ==
  { [road |-> r, idx |-> k] : r \in RoadIds, k \in 1..2 }
     \ { [road |-> "7", idx |-> 2], [road |-> "12", idx |-> 2] }

\* Road::get_lanesection(s): the section of the road covering s, null if none
get_lanesection(r, sv) ==
  LET secs == Roads[r].sections
      hit  == { k \in 1..Len(secs) :
                  /\ secs[k].s0 <= sv
                  /\ \/ sv < secs[k].end
                     \/ (k = Len(secs) /\ sv = secs[k].end) }
  IN  IF hit = {} THEN NoSection
      ELSE [road |-> r, idx |-> CHOOSE k \in hit : TRUE]

\* navigator::opendrive::get_lane_from_xy: the lane under (x, y), null if none
get_lane_from_xy(x, y) ==
  LET on == { r \in RoadIds :
                /\ Roads[r].x0 <= x
                /\ x <= Roads[r].x0 + Roads[r].length
                /\ (x = Roads[r].x0 => r = "81") }
  IN  IF on = {} \/ y \notin {-1, 1} THEN NoLane
      ELSE LET r   == CHOOSE q \in on : TRUE
               sec == get_lanesection(r, x - Roads[r].x0)
               ls  == SectionOf(sec).lanes
               i   == CHOOSE j \in 1..Len(ls) : ls[j].id = y
           IN  ls[i]

\* RefLine::match(x, y): arc-length of the point of the road closest to (x, y)
match(r, x, y) == x - Roads[r].x0

\* ------------------------------------------------------------ the inputs
\* positions of the incoming odometry messages
PoseXs == {5, 25, 35, 45, 75, 83, 105, 200}
PoseYs == {-1, 1}

\* sensor_msgs::PointCloud2 messages: points with x, y, z and an intensity
Pt(x, y, z, i) == [x |-> x, y |-> y, z |-> z, intensity |-> i]
CloudMsgs == { << >>, << Pt(1, 0, 0, 7) >>, << Pt(1, 0, 0, 7), Pt(0, 1, 0, 9) >> }

\* the route table of publish_odom; line 61-64 has the first one
PathEntry(r, l) == [road |-> r, lane |-> l]
PathSet == { << PathEntry("81", 1), PathEntry("953", 1) >>,
             << PathEntry("81", 1), PathEntry("953", -1) >>,
             << PathEntry("81", 1), PathEntry("953", -4) >>,
             << PathEntry("81", 1), PathEntry("7", 1) >>,
             << PathEntry("81", 1), PathEntry("953", 1),
                PathEntry("81", -1), PathEntry("7", -1) >> }


\* --------------------------------------------------------------- helpers
Abs(n) == IF n < 0 THEN -n ELSE n

Range(f) == { f[i] : i \in DOMAIN f }

\* convert_to_pcl: PointCloud2 -> pcl::PointCloud<pcl::PointXYZ>, which keeps
\* the coordinates of every point, in order, and drops the other fields
convert_to_pcl(msg) ==
  [i \in 1..Len(msg) |-> << msg[i].x, msg[i].y, msg[i].z >>]

\* current_lane <= 0 and current_lane > 0 of line 81: current_lane is a
\* std::shared_ptr, so the comparison is with the null pointer, not the id
PtrLeqNull(lane) == lane = NoLane
PtrGtNull(lane) == lane # NoLane

\* the condition of line 81
CrossesBoundary(lane, sv, len) ==
  \/ (PtrLeqNull(lane) /\ (sv + LOOKAHEAD) > len)
  \/ (PtrGtNull(lane)  /\ (sv - LOOKAHEAD) < 0)

NextSMutant(len, sv) == len - (sv + LOOKAHEAD)

\* line 83: next_s = abs(current_road->length - (s + 20))
NextS(len, sv) == Abs(len - (sv + LOOKAHEAD))

\* line 89: the lane id strings for which next_s is taken from the start
FromStart(laneid) == laneid \in {-1, -2, -3}

\* lines 89-93: the arc-length handed to the next road's get_lanesection
NextArc(entry, ns) ==
  IF FromStart(entry.lane) THEN ns ELSE Roads[entry.road].length - ns

\* lines 85-96: the loop over path_roads, from entry i on; acc holds
\* target_road and target_lanesection as assigned so far
RECURSIVE PathScan(_, _, _, _, _)
PathScan(path, rid, ns, i, acc) ==
  IF i > Len(path) THEN acc
  ELSE IF path[i].road = rid /\ i # Len(path)
       THEN PathScan(path, rid, ns, i + 1,
                     [road |-> path[i + 1].road,
                      sec  |-> get_lanesection(path[i + 1].road,
                                               NextArc(path[i + 1], ns)),
                      arc  |-> NextArc(path[i + 1], ns),
                      from |-> i + 1])
       ELSE PathScan(path, rid, ns, i + 1, acc)

Unresolved == [road |-> NoRoad, sec |-> NoSection, arc |-> 0, from |-> 0]

IsRightCurbMutant(lane) == lane.id <= 0

\* line 108
IsRightCurb(lane) == lane.type = "shoulder" /\ lane.id <= 0

\* line 110
IsLeftCurb(lane) == lane.type = "shoulder" /\ lane.id > 0

\* lines 107-113: the loop over the lanes of the section, from lane i on
RECURSIVE LaneScan(_, _, _)
LaneScan(lanes, i, acc) ==
  IF i > Len(lanes) THEN acc
  ELSE IF IsRightCurb(lanes[i])
       THEN LaneScan(lanes, i + 1, [acc EXCEPT !.right = lanes[i]])
       ELSE IF IsLeftCurb(lanes[i])
            THEN LaneScan(lanes, i + 1, [acc EXCEPT !.left = lanes[i]])
            ELSE LaneScan(lanes, i + 1, acc)

NoCurbs == [right |-> NoLane, left |-> NoLane]

\* navigator::opendrive::get_centerline_as_xy(lane, s0, end, 0.25, reverse):
\* the request is kept, the step in quarters of a metre
NoLine == [lane |-> NoLane, s0 |-> 0, end |-> 0, step4 |-> 0, reverse |-> FALSE]
get_centerline_as_xy(lane, s0, end, step4, reverse) ==
  [lane |-> lane, s0 |-> s0, end |-> end, step4 |-> step4, reverse |-> reverse]

\* ------------------------------------------------- the frame transform
\* vectors are triples, matrices triples of rows
Vec3s == { << 0, 0, 0 >>, << 1, 0, 0 >>, << 0, 2, 1 >> }

VecAdd(u, v) == << u[1] + v[1], u[2] + v[2], u[3] + v[3] >>

MatVec(A, v) ==
  [i \in 1..3 |-> A[i][1] * v[1] + A[i][2] * v[2] + A[i][3] * v[3]]

MatMul(A, B) ==
  [i \in 1..3 |-> [j \in 1..3 |->
      A[i][1] * B[1][j] + A[i][2] * B[2][j] + A[i][3] * B[3][j]]]

Identity3 == << << 1, 0, 0 >>, << 0, 1, 0 >>, << 0, 0, 1 >> >>
Zero3 == << << 0, 0, 0 >>, << 0, 0, 0 >>, << 0, 0, 0 >> >>

\* orientations: the unit quaternions of the quarter turns about the z axis,
\* named by the number of quarter turns
Quarters == 0..3

\* Eigen::Quaterniond::toRotationMatrix for those quaternions
toRotationMatrix(k) ==
  CASE k = 0 -> Identity3
    [] k = 1 -> << << 0, -1, 0 >>, << 1, 0, 0 >>, << 0, 0, 1 >> >>
    [] k = 2 -> << << -1, 0, 0 >>, << 0, -1, 0 >>, << 0, 0, 1 >> >>
    [] k = 3 -> << << 0, 1, 0 >>, << -1, 0, 0 >>, << 0, 0, 1 >> >>

\* Eigen::Affine3d as linear part and translation part
Affine(l, tr) == [linear |-> l, translation |-> tr]

\* line 134: Eigen::Affine3d odom_pose; the default constructor leaves the
\* linear and the translation part uninitialized, so they hold whatever the
\* stack held
UninitAffine ==
  { Affine(Identity3, << 0, 0, 0 >>),
    Affine(Zero3, << 0, 0, 0 >>),
    Affine(<< << 2, 0, 0 >>, << 0, 1, 0 >>, << 0, 0, 1 >> >>, << 0, 0, 5 >>) }

\* Transform::rotate: multiplies the rotation on the right
rotate(M, R) == Affine(MatMul(M.linear, R), M.translation)

\* Transform::translate: multiplies the translation on the right
translate(M, v) == Affine(M.linear, VecAdd(M.translation, MatVec(M.linear, v)))

\* pcl::transformPointCloud: M applied to every point, in order
transformPointCloud(cloud, M) ==
  [i \in 1..Len(cloud) |-> VecAdd(MatVec(M.linear, cloud[i]), M.translation)]

\* lines 134-144, from the value M0 that odom_pose starts with
TransformFrom(M0, cloud, pose) ==
  transformPointCloud(cloud,
     translate(rotate(M0, toRotationMatrix(pose.orientation)), pose.position))

MaxCloudLen == 2

Clouds == UNION { [1..n -> Vec3s] : n \in 0..MaxCloudLen }
Poses == [position : Vec3s, orientation : Quarters]

\* -------------------------------------------- the displacement estimator
\* (the algorithm of the comment of lines 147-171, steps 3 to 5)
Dot(u, v) == u[1] * v[1] + u[2] * v[2] + u[3] * v[3]

VecSub(u, v) == << u[1] - v[1], u[2] - v[2], u[3] - v[3] >>

Cross(u, v) == << u[2] * v[3] - u[3] * v[2],
                  u[3] * v[1] - u[1] * v[3],
                  u[1] * v[2] - u[2] * v[1] >>

ZeroVec == << 0, 0, 0 >>

\* the Euclidean norm; the points of the model keep it integral
MaxNorm == 64
Norm(v) == CHOOSE n \in 0..MaxNorm : n * n = Dot(v, v)

\* the point of the segment from a to b that is closest to p: the projection
\* of p on the segment's line, clamped to the segment
ClosestOnSegment(p, a, b) ==
  LET ab  == VecSub(b, a)
      num == Dot(VecSub(p, a), ab)
      den == Dot(ab, ab)
  IN  IF num <= 0 THEN a
      ELSE IF num >= den THEN b
      ELSE << a[1] + (num * ab[1]) \div den,
              a[2] + (num * ab[2]) \div den,
              a[3] + (num * ab[3]) \div den >>

\* the closest point of a polyline: the minimum over its segments, from
\* segment i on, best being the closest point found so far
RECURSIVE ClosestOnLine(_, _, _, _)
ClosestOnLine(p, line, i, best) ==
  IF i >= Len(line) THEN best
  ELSE LET c == ClosestOnSegment(p, line[i], line[i + 1])
       IN  IF Dot(VecSub(c, p), VecSub(c, p)) < Dot(VecSub(best, p), VecSub(best, p))
           THEN ClosestOnLine(p, line, i + 1, c)
           ELSE ClosestOnLine(p, line, i + 1, best)

\* step 3: the minimum translation that moves p onto the curb line
Displacement(p, line) == VecSub(ClosestOnLine(p, line, 1, line[1]), p)

Displacements(cloud, line) ==
  [i \in 1..Len(cloud) |-> Displacement(cloud[i], line)]

RECURSIVE SumVec(_)
SumVec(ds) == IF ds = << >> THEN ZeroVec ELSE VecAdd(Head(ds), SumVec(Tail(ds)))

RECURSIVE SumNorm(_)
SumNorm(ds) == IF ds = << >> THEN 0 ELSE Norm(Head(ds)) + SumNorm(Tail(ds))

MeanMutant(ds) == [num |-> SumVec(ds), den |-> 1]

\* step 4: the average of the displacement vectors, as the fraction num / den
Mean(ds) ==
  IF ds = << >> THEN [num |-> ZeroVec, den |-> 1]
  ELSE [num |-> SumVec(ds), den |-> Len(ds)]

ConfidenceMutant(ds) ==
  [num2 |-> Dot(SumVec(ds), SumVec(ds)), den |-> SumNorm(ds)]

\* step 5: C = ||sum(d)|| / sum(||d||), kept as the square of the numerator
\* and the denominator; 0 when the denominator is 0
Confidence(ds) ==
  IF SumNorm(ds) = 0 THEN [num2 |-> 0, den |-> 1]
  ELSE [num2 |-> Dot(SumVec(ds), SumVec(ds)), den |-> SumNorm(ds)]

estimateOf(cloud, line) ==
  [translation |-> Mean(Displacements(cloud, line)),
   confidence  |-> Confidence(Displacements(cloud, line))]

NoEstimate == [translation |-> [num |-> ZeroVec, den |-> 1],
               confidence  |-> [num2 |-> 0, den |-> 1]]

\* a curb line along the y axis and flattened candidate points around it
CurbLineE == << << 0, 0, 0 >>, << 0, 2, 0 >>, << 0, 4, 0 >> >>
CandPts == { << -1, 1, 0 >>, << -1, 2, 0 >>, << -1, 3, 0 >>, << 1, 1, 0 >>,
             << 0, 1, 0 >>, << -2, 3, 0 >>, << 3, 8, 0 >> }
MaxCandLen == 3
CandClouds == UNION { [1..n -> CandPts] : n \in 0..MaxCandLen }

\* ------------------------------------------------- the global planner
\* (lanelet2_global_planner.cpp)
LaneletIds == 1..4

NoRoute == [found |-> FALSE, shortestPath |-> << >>, fullLane |-> << >>, length2d |-> 0]
Route(sp, full, len) ==
  [found |-> TRUE, shortestPath |-> sp, fullLane |-> full, length2d |-> len]

\* routingGraph->getRoute(fromLanelet, toLanelet, 0) of line 164 with the
\* route's shortestPath(), fullLane(fromLanelet).ids() and length2d(): the
\* routing graph of the loaded map
getRoute(a, b) ==
  CASE a = 1 /\ b = 3 -> Route(<< 1, 3 >>, << 1, 3 >>, 5)
    [] a = 1 /\ b = 4 -> Route(<< 1, 2, 4 >>, << 1, 2, 4 >>, 5)
    [] a = 2 /\ b = 3 -> Route(<< 2, 3 >>, << 2, 3 >>, 3)
    [] a = 2 /\ b = 2 -> Route(<< 2 >>, << 2 >>, 7)
    [] a = 3 /\ b = 4 -> Route(<< 3, 4 >>, << >>, 1)
    [] a = 4 /\ b = 3 -> Route(<< >>, << 4, 3 >>, 1)
    [] a = 4 /\ b = 4 -> Route(<< 4 >>, << 4 >>, 5)
    [] OTHER -> NoRoute

\* line 156: std::numeric_limits<float64_t>::max(), above every route length
FloatMax == 1000000

ShorterMutant(shortest_length, route_length) == shortest_length >= route_length

\* line 174: shortest_length > route_length
Shorter(shortest_length, route_length) == shortest_length > route_length

\* lines 162-180: the body of the inner loop for one pair; acc holds
\* shortest_length and shortest_route
RouteStep(start_id, end_id, acc) ==
  LET route == getRoute(start_id, end_id)
  IN  IF /\ route.found
         /\ route.shortestPath # << >>
         /\ route.fullLane # << >>
         /\ Shorter(acc.shortest_length, route.length2d)
      THEN [shortest_length |-> route.length2d, shortest_route |-> route.fullLane]
      ELSE acc

\* lines 160-181: the inner loop over to_id, from its entry j on
RECURSIVE RouteInner(_, _, _, _)
RouteInner(start_id, to_id, j, acc) ==
  IF j > Len(to_id) THEN acc
  ELSE RouteInner(start_id, to_id, j + 1, RouteStep(start_id, to_id[j], acc))

\* lines 158-182: the outer loop over from_id, from its entry i on
RECURSIVE RouteOuter(_, _, _, _)
RouteOuter(from_id, to_id, i, acc) ==
  IF i > Len(from_id) THEN acc
  ELSE RouteOuter(from_id, to_id, i + 1, RouteInner(from_id[i], to_id, 1, acc))

\* lines 145-185
get_lane_route(from_id, to_id) ==
  RouteOuter(from_id, to_id, 1,
             [shortest_length |-> FloatMax, shortest_route |-> << >>]).shortest_route

\* laneletLayer.nearest(point, 2) of lines 86 and 101: up to two lanelets
MaxNearest == 2
NearestResults ==
  { q \in UNION { [1..n -> LaneletIds] : n \in 0..MaxNearest } :
      \A i, j \in 1..Len(q) : i # j => q[i] # q[j] }

\* lines 87-97 and 102-112: the ids of the nearest lanelets, none if there
\* are none
IdsOf(nearest_lanelets) == [i \in 1..Len(nearest_lanelets) |-> nearest_lanelets[i]]

\* ------------------------------------------------------- the CAN frame
\* (CanFrame.cpp)  identifier_t is a 32-bit unsigned integer, as can_id is;
\* data_t is a 64-bit unsigned integer, kept as its four 16-bit words, the
\* least significant first
WordVals == {0, 1, 258, 65535}
DataVals == [1..4 -> WordVals]
IdVals == {0, 1, 2047, 536870911}

\* line 42
CAN_DLC == 8

StoreDataMutant(d) ==
  [i \in 1..8 |-> IF i > 4 THEN 0
                  ELSE IF i % 2 = 1 THEN d[(i + 1) \div 2] % 256
                  ELSE d[i \div 2] \div 256]

\* line 41: *(data_t *) system_frame->data = data, the eight bytes of the
\* value in the byte order of the machine (least significant first)
StoreData(d) ==
  [i \in 1..8 |-> IF i % 2 = 1 THEN d[(i + 1) \div 2] % 256
                  ELSE d[i \div 2] \div 256]

\* line 25: *((data_t *) frame_struct.data), the value of the eight bytes
LoadData(bytes) ==
  [k \in 1..4 |-> bytes[2 * k - 1] + 256 * bytes[2 * k]]

\* lines 38-44: the struct can_frame made by to_system_frame
SystemFrameOf(id, d) ==
  [can_id |-> id, can_dlc |-> CAN_DLC, data |-> StoreData(d)]

\* lines 23-26: the frame made from a struct can_frame
FrameOf(frame_struct) ==
  [identifier |-> frame_struct.can_id, data |-> LoadData(frame_struct.data)]

NoSystemFrame == [can_id |-> 0, can_dlc |-> 0, data |-> [i \in 1..8 |-> 0]]
NoFrame == [identifier |-> 0, data |-> [k \in 1..4 |-> 0]]

\* ------------------------------------------------------------- the state
NoOdom == [x |-> 0, y |-> 0, seq |-> 0]

VARIABLES
  path_roads,           \* the route table of publish_odom
  left_curb_points,     \* this->left_curb_points
  right_curb_points,    \* this->right_curb_points
  last_left_msg,        \* the message left_curb_points_callback received last
  last_right_msg,       \* the message right_curb_points_callback received last
  odom_in,              \* this->odom_in
  current_position_x,   \* this->current_position_x
  current_position_y,   \* this->current_position_y
  odom_out,             \* this->odom_out, "unset" while null
  pc,                   \* position of the executor: idle, a step of publish_odom, crashed
  current_lane, road_id, s,                 \* locals of publish_odom
  crossed, next_s, queried_s, target_road, target_lanesection, target_from,
  right_curb, left_curb, right_curb_line, left_curb_line,
  published,            \* what odom_out_pub has sent, with the cycle it was sent in
  nPose,                \* pose updates received
  \* queried_s is the argument of the get_lanesection call that set the target
  ub,                   \* null dereferences executed in the current cycle
  ran,                  \* steps of publish_odom executed in the current cycle
  tpc,                  \* transform_points_to_odom: none, call, done
  in_cloud, odom, out_cloud,  \* its parameters
  e_pc,                 \* estimate: none, call, done
  candidate_cloud, curb_line, est,  \* its parameters and its result
  p_pc,                 \* plan_route: none, call, done
  nearest_lanelets_start, nearest_lanelets_end,   \* what the map returns for the two points
  lane_start, lane_end, route, plan_result,  \* locals, out-parameter and return value
  f_pc,                 \* CAN frame: none, new, frame, system, done
  arg_identifier, arg_data,   \* arguments of CanFrame(identifier, data)
  frame,                \* the frame: this->identifier and this->data
  system_frame,         \* the result of to_system_frame
  frame_back,           \* the frame made from system_frame
  c_pc,                 \* per executor thread: none, idle, l53, l54, l55, l67, l74, done
  c_msg,                \* per thread: the pose message its odom_in_callback handles
  c_seen,               \* per thread: the position read at line 67
  c_match               \* per thread: the position read at line 74

nodeVars == << path_roads, left_curb_points, right_curb_points,
               last_left_msg, last_right_msg, odom_in,
               current_position_x, current_position_y, odom_out, pc,
               current_lane, road_id, s, crossed, next_s, queried_s,
               target_road, target_lanesection, target_from, right_curb, left_curb,
               right_curb_line, left_curb_line, published, nPose, ub, ran >>

tVars == << tpc, in_cloud, odom, out_cloud >>

eVars == << e_pc, candidate_cloud, curb_line, est >>

pVars == << p_pc, nearest_lanelets_start, nearest_lanelets_end,
            lane_start, lane_end, route, plan_result >>

fVars == << f_pc, arg_identifier, arg_data, frame, system_frame, frame_back >>

cVars == << c_pc, c_msg, c_seen, c_match >>

xVars == << eVars, pVars, fVars, cVars >>

vars == << nodeVars, tVars, xVars >>

localsInit ==
  /\ current_lane = NoLane /\ road_id = NoRoad /\ s = 0
  /\ crossed = FALSE /\ next_s = 0 /\ queried_s = 0
  /\ target_road = NoRoad /\ target_lanesection = NoSection /\ target_from = 0
  /\ right_curb = NoLane /\ left_curb = NoLane
  /\ right_curb_line = NoLine /\ left_curb_line = NoLine

\* lines 18-36: the constructor assigns the map, the subscriptions and the
\* publisher; the clouds are empty and odom_in, odom_out are null
NodeInit ==
  /\ path_roads \in PathSet
  /\ left_curb_points = << >> /\ right_curb_points = << >>
  /\ last_left_msg = << >> /\ last_right_msg = << >>
  /\ odom_in = NoOdom
  /\ current_position_x = 0 /\ current_position_y = 0
  /\ odom_out = "unset"
  /\ pc = "idle"
  /\ localsInit
  /\ published = << >>
  /\ nPose = 0
  /\ ub = {}
  /\ ran = << >>

NoPose == [position |-> << 0, 0, 0 >>, orientation |-> 0]

TIdle == tpc = "none" /\ in_cloud = << >> /\ odom = NoPose /\ out_cloud = << >>

EIdle ==
  e_pc = "none" /\ candidate_cloud = << >> /\ curb_line = << >> /\ est = NoEstimate

PIdle ==
  /\ p_pc = "none"
  /\ nearest_lanelets_start = << >> /\ nearest_lanelets_end = << >>
  /\ lane_start = << >> /\ lane_end = << >> /\ route = << >>
  /\ plan_result = FALSE

FIdle ==
  /\ f_pc = "none"
  /\ arg_identifier = 0 /\ arg_data = NoFrame.data
  /\ frame = NoFrame /\ system_frame = NoSystemFrame /\ frame_back = NoFrame

NThreads == 2
Threads == 1..NThreads
NoSeen == << 0, 0 >>

CIdle ==
  /\ c_pc = [t \in Threads |-> "none"]
  /\ c_msg = [t \in Threads |-> NoOdom]
  /\ c_seen = [t \in Threads |-> NoSeen]
  /\ c_match = [t \in Threads |-> NoSeen]

XIdle == EIdle /\ PIdle /\ FIdle /\ CIdle

Init ==
  /\ NodeInit
  /\ TIdle
  /\ XIdle

cloudsSame == UNCHANGED << left_curb_points, right_curb_points,
                           last_left_msg, last_right_msg >>
cellsSame == UNCHANGED << path_roads, odom_in, current_position_x,
                          current_position_y, odom_out, nPose, tVars,
                          xVars >>
locateSame == UNCHANGED << current_lane, road_id, s >>
resolveSame == UNCHANGED << crossed, next_s, queried_s, target_road, target_lanesection,
                            target_from >>
extractSame == UNCHANGED << right_curb, left_curb >>
linesSame == UNCHANGED << right_curb_line, left_curb_line >>
localsSame == locateSame /\ resolveSame /\ extractSame /\ linesSame

left_curb_points_callbackMutant(msg) ==
  /\ pc = "idle"
  /\ right_curb_points' = convert_to_pcl(msg)
  /\ last_left_msg' = msg
  /\ UNCHANGED << left_curb_points, last_right_msg, pc, published, ub, ran >>
  /\ cellsSame /\ localsSame

\* lines 44-46
left_curb_points_callback(msg) ==
  /\ pc = "idle"
  /\ left_curb_points' = convert_to_pcl(msg)
  /\ last_left_msg' = msg
  /\ UNCHANGED << right_curb_points, last_right_msg, pc, published, ub, ran >>
  /\ cellsSame /\ localsSame

\* lines 48-50
right_curb_points_callback(msg) ==
  /\ pc = "idle"
  /\ right_curb_points' = convert_to_pcl(msg)
  /\ last_right_msg' = msg
  /\ UNCHANGED << left_curb_points, last_left_msg, pc, published, ub, ran >>
  /\ cellsSame /\ localsSame

\* lines 52-57: stores the message and the position, then enters publish_odom,
\* whose locals start out null
odom_in_callback(x, y) ==
  /\ pc = "idle"
  /\ nPose < MaxPoses
  /\ nPose' = nPose + 1
  /\ odom_in' = [x |-> x, y |-> y, seq |-> nPose + 1]
  /\ current_position_x' = x
  /\ current_position_y' = y
  /\ pc' = "locate"
  /\ current_lane' = NoLane /\ road_id' = NoRoad /\ s' = 0
  /\ crossed' = FALSE /\ next_s' = 0 /\ queried_s' = 0
  /\ target_road' = NoRoad /\ target_lanesection' = NoSection /\ target_from' = 0
  /\ right_curb' = NoLane /\ left_curb' = NoLane
  /\ right_curb_line' = NoLine /\ left_curb_line' = NoLine
  /\ ub' = {} /\ ran' = << >>
  /\ UNCHANGED << path_roads, odom_out, published, tVars, xVars >>
  /\ cloudsSame

\* lines 66-74: current_lane, road_id, current_road and s.  With no lane under
\* the position, line 70 dereferences a null current_lane
GarbageS == {0, 30}

publish_odom_locate ==
  /\ pc = "locate"
  /\ ran' = Append(ran, "locate")
  /\ LET lane == get_lane_from_xy(current_position_x, current_position_y)
     IN  /\ current_lane' = lane
         /\ IF lane # NoLane
            THEN /\ road_id' = lane.road
                 /\ s' = match(lane.road, current_position_x, current_position_y)
                 /\ ub' = ub
                 /\ pc' = "resolve"
            ELSE /\ ub' = ub \cup {"current_lane"}
                 /\ \/ /\ pc' = "crashed"
                       /\ UNCHANGED << road_id, s >>
                    \/ /\ pc' = "resolve"
                       /\ road_id' \in RoadIds
                       /\ s' \in GarbageS
  /\ UNCHANGED << published >>
  /\ cellsSame /\ cloudsSame /\ resolveSame /\ extractSame /\ linesSame

\* lines 76-101: target_road and target_lanesection
publish_odom_resolve ==
  /\ pc = "resolve"
  /\ ran' = Append(ran, "resolve")
  /\ LET len == Roads[road_id].length
     IN  IF CrossesBoundary(current_lane, s, len)
         THEN LET ns  == NextS(len, s)
                  res == PathScan(path_roads, road_id, ns, 1, Unresolved)
              IN  /\ crossed' = TRUE
                  /\ next_s' = ns
                  /\ queried_s' = res.arc
                  /\ target_road' = res.road
                  /\ target_lanesection' = res.sec
                  /\ target_from' = res.from
         ELSE /\ crossed' = FALSE
              /\ next_s' = next_s
              /\ queried_s' = s
              /\ target_road' = road_id
              /\ target_lanesection' = get_lanesection(road_id, s)
              /\ target_from' = 0
  /\ pc' = "extract"
  /\ UNCHANGED << published, ub >>
  /\ cellsSame /\ cloudsSame /\ locateSame /\ extractSame /\ linesSame

\* lines 103-113: right_curb and left_curb.  With no section resolved, line
\* 107 dereferences a null target_lanesection
publish_odom_extract ==
  /\ pc = "extract"
  /\ ran' = Append(ran, "extract")
  /\ IF target_lanesection # NoSection
     THEN LET res == LaneScan(SectionOf(target_lanesection).lanes, 1, NoCurbs)
          IN  /\ right_curb' = res.right
              /\ left_curb' = res.left
              /\ ub' = ub
              /\ pc' = "centerline"
     ELSE /\ ub' = ub \cup {"target_lanesection"}
          /\ \/ /\ pc' = "crashed"
                /\ UNCHANGED << right_curb, left_curb >>
             \/ /\ pc' = "centerline"
                /\ \E g \in AllSections \cup {NoSection} :
                     LET res == IF g = NoSection THEN NoCurbs
                                ELSE LaneScan(SectionOf(g).lanes, 1, NoCurbs)
                     IN  /\ right_curb' = res.right
                         /\ left_curb' = res.left
  /\ UNCHANGED << published >>
  /\ cellsSame /\ cloudsSame /\ locateSame /\ resolveSame /\ linesSame

\* lines 115-117: the two centerlines.  *right_curb and *left_curb are
\* dereferenced whether or not the loop found a lane
publish_odom_centerline ==
  /\ pc = "centerline"
  /\ ran' = Append(ran, "centerline")
  /\ LET s0  == IF target_lanesection = NoSection THEN 0
                ELSE SectionOf(target_lanesection).s0
         end == IF target_lanesection = NoSection THEN 0
                ELSE SectionOf(target_lanesection).end
         rl  == get_centerline_as_xy(right_curb, s0, end, 1, FALSE)
         ll  == get_centerline_as_xy(left_curb, s0, end, 1, TRUE)
     IN  IF right_curb = NoLane
         THEN \/ /\ ub' = ub \cup {"right_curb"}
                 /\ pc' = "crashed"
                 /\ UNCHANGED << right_curb_line, left_curb_line >>
              \/ /\ left_curb = NoLane
                 /\ ub' = ub \cup {"right_curb", "left_curb"}
                 /\ right_curb_line' = rl
                 /\ \/ pc' = "crashed" /\ left_curb_line' = left_curb_line
                    \/ pc' = "publish" /\ left_curb_line' = ll
              \/ /\ left_curb # NoLane
                 /\ ub' = ub \cup {"right_curb"}
                 /\ right_curb_line' = rl /\ left_curb_line' = ll
                 /\ pc' = "publish"
         ELSE IF left_curb = NoLane
              THEN /\ ub' = ub \cup {"left_curb"}
                   /\ right_curb_line' = rl
                   /\ \/ pc' = "crashed" /\ left_curb_line' = left_curb_line
                      \/ pc' = "publish" /\ left_curb_line' = ll
              ELSE /\ ub' = ub
                   /\ right_curb_line' = rl /\ left_curb_line' = ll
                   /\ pc' = "publish"
  /\ UNCHANGED << published >>
  /\ cellsSame /\ cloudsSame /\ locateSame /\ resolveSame /\ extractSame

\* line 120: odom_out_pub->publish(*odom_out); nothing in the node assigns
\* odom_out, so the dereference is of a null pointer
publish_odom_publish ==
  /\ pc = "publish"
  /\ ran' = Append(ran, "publish")
  /\ IF odom_out = "unset"
     THEN /\ ub' = ub \cup {"odom_out"}
          /\ \/ pc' = "crashed" /\ published' = published
             \/ /\ pc' = "idle"
                /\ published' = Append(published, [cycle |-> nPose, msg |-> odom_out])
     ELSE /\ ub' = ub
          /\ pc' = "idle"
          /\ published' = Append(published, [cycle |-> nPose, msg |-> odom_out])
  /\ cellsSame /\ cloudsSame /\ localsSame

Next ==
  \/ \E msg \in CloudMsgs : left_curb_points_callback(msg)
  \/ \E msg \in CloudMsgs : right_curb_points_callback(msg)
  \/ \E x \in PoseXs, y \in PoseYs : odom_in_callback(x, y)
  \/ publish_odom_locate
  \/ publish_odom_resolve
  \/ publish_odom_extract
  \/ publish_odom_centerline
  \/ publish_odom_publish

Spec == Init /\ [][Next]_vars

\* ---- transform_points_to_odom on its own: the inputs are drawn at the start
NodeIdle ==
  /\ NodeInit
  /\ path_roads = << PathEntry("81", 1), PathEntry("953", 1) >>

InitT ==
  /\ NodeIdle
  /\ XIdle
  /\ tpc = "call"
  /\ in_cloud \in Clouds
  /\ odom \in Poses
  /\ out_cloud = << >>

\* lines 130-145
transform_points_to_odom ==
  /\ tpc = "call"
  /\ \E M0 \in UninitAffine : out_cloud' = TransformFrom(M0, in_cloud, odom)
  /\ tpc' = "done"
  /\ UNCHANGED << in_cloud, odom >>
  /\ UNCHANGED << nodeVars, xVars >>

NextT == transform_points_to_odom

SpecT == InitT /\ [][NextT]_vars

\* ---- estimate on its own: the candidate cloud is drawn at the start
InitE ==
  /\ NodeIdle
  /\ TIdle
  /\ PIdle
  /\ FIdle
  /\ CIdle
  /\ e_pc = "call"
  /\ candidate_cloud \in CandClouds
  /\ curb_line = CurbLineE
  /\ est = NoEstimate

\* estimate(candidate_cloud, curb_line)
estimate ==
  /\ e_pc = "call"
  /\ est' = estimateOf(candidate_cloud, curb_line)
  /\ e_pc' = "done"
  /\ UNCHANGED << candidate_cloud, curb_line >>
  /\ UNCHANGED << nodeVars, tVars, pVars, fVars, cVars >>

NextE == estimate

SpecE == InitE /\ [][NextE]_vars

\* ---- plan_route on its own: the nearest lanelets of the start and of the
\* goal are drawn at the start
InitP ==
  /\ NodeIdle
  /\ TIdle
  /\ EIdle
  /\ FIdle
  /\ CIdle
  /\ p_pc = "call"
  /\ nearest_lanelets_start \in NearestResults
  /\ nearest_lanelets_end \in NearestResults
  /\ lane_start = << >> /\ lane_end = << >> /\ route = << >>
  /\ plan_result = FALSE

\* lines 72-118
plan_route ==
  /\ p_pc = "call"
  /\ lane_start' = IF nearest_lanelets_start = << >> THEN << >>
                   ELSE IdsOf(nearest_lanelets_start)
  /\ lane_end' = IF nearest_lanelets_end = << >> THEN << >>
                 ELSE IdsOf(nearest_lanelets_end)
  /\ route' = get_lane_route(lane_start', lane_end')
  /\ plan_result' = (Len(route') > 0)
  /\ p_pc' = "done"
  /\ UNCHANGED << nearest_lanelets_start, nearest_lanelets_end >>
  /\ UNCHANGED << nodeVars, tVars, eVars, fVars, cVars >>

NextP == plan_route

SpecP == InitP /\ [][NextP]_vars

\* ---- a CAN frame is made, turned into a struct can_frame and made again
\* from the struct; the identifier and the data are drawn at the start
InitF ==
  /\ NodeIdle
  /\ TIdle
  /\ EIdle
  /\ PIdle
  /\ CIdle
  /\ f_pc = "new"
  /\ arg_identifier \in IdVals
  /\ arg_data \in DataVals
  /\ frame = NoFrame /\ system_frame = NoSystemFrame /\ frame_back = NoFrame

otherThanF == << nodeVars, tVars, eVars, pVars, cVars >>

\* lines 18-21
CanFrame_new ==
  /\ f_pc = "new"
  /\ frame' = [identifier |-> arg_identifier, data |-> arg_data]
  /\ f_pc' = "frame"
  /\ UNCHANGED << arg_identifier, arg_data, system_frame, frame_back >>
  /\ UNCHANGED otherThanF

\* lines 38-44
to_system_frame ==
  /\ f_pc = "frame"
  /\ system_frame' = SystemFrameOf(frame.identifier, frame.data)
  /\ f_pc' = "system"
  /\ UNCHANGED << arg_identifier, arg_data, frame, frame_back >>
  /\ UNCHANGED otherThanF

\* lines 23-26
CanFrame_from_struct ==
  /\ f_pc = "system"
  /\ frame_back' = FrameOf(system_frame)
  /\ f_pc' = "done"
  /\ UNCHANGED << arg_identifier, arg_data, frame, system_frame >>
  /\ UNCHANGED otherThanF

NextF == CanFrame_new \/ to_system_frame \/ CanFrame_from_struct

SpecF == InitF /\ [][NextF]_vars

\* ---- the callbacks on the threads of an executor that runs them
\* concurrently.  Lines 44-57 and 66-74 take no lock, so every statement of
\* odom_in_callback is a step of its own; the clouds are written by the
\* cloud callbacks and read by no line of publish_odom.
PoseMsgs == { << 5, -1 >>, << 35, 1 >>, << 45, -1 >> }

InitC ==
  /\ NodeIdle
  /\ TIdle
  /\ EIdle
  /\ PIdle
  /\ FIdle
  /\ c_pc = [t \in Threads |-> "idle"]
  /\ c_msg = [t \in Threads |-> NoOdom]
  /\ c_seen = [t \in Threads |-> NoSeen]
  /\ c_match = [t \in Threads |-> NoSeen]

otherThanC == << tVars, eVars, pVars, fVars >>
nodeRestSame ==
  /\ UNCHANGED << path_roads, odom_out, pc, published, ub, ran >>
  /\ cloudsSame /\ localsSame

\* line 52: a thread takes a pose message and enters odom_in_callback
odom_in_callback_enter(t, x, y) ==
  /\ c_pc[t] = "idle"
  /\ nPose' = nPose + 1
  /\ c_msg' = [c_msg EXCEPT ![t] = [x |-> x, y |-> y, seq |-> nPose + 1]]
  /\ c_pc' = [c_pc EXCEPT ![t] = "l53"]
  /\ UNCHANGED << odom_in, current_position_x, current_position_y,
                  c_seen, c_match >>
  /\ nodeRestSame /\ UNCHANGED otherThanC

\* line 53
odom_in_callback_l53(t) ==
  /\ c_pc[t] = "l53"
  /\ odom_in' = c_msg[t]
  /\ c_pc' = [c_pc EXCEPT ![t] = "l54"]
  /\ UNCHANGED << current_position_x, current_position_y, nPose,
                  c_msg, c_seen, c_match >>
  /\ nodeRestSame /\ UNCHANGED otherThanC

\* line 54
odom_in_callback_l54(t) ==
  /\ c_pc[t] = "l54"
  /\ current_position_x' = c_msg[t].x
  /\ c_pc' = [c_pc EXCEPT ![t] = "l55"]
  /\ UNCHANGED << odom_in, current_position_y, nPose, c_msg, c_seen, c_match >>
  /\ nodeRestSame /\ UNCHANGED otherThanC

\* line 55
odom_in_callback_l55(t) ==
  /\ c_pc[t] = "l55"
  /\ current_position_y' = c_msg[t].y
  /\ c_pc' = [c_pc EXCEPT ![t] = "l67"]
  /\ UNCHANGED << odom_in, current_position_x, nPose, c_msg, c_seen, c_match >>
  /\ nodeRestSame /\ UNCHANGED otherThanC

\* line 67: publish_odom reads the position for get_lane_from_xy
publish_odom_l67(t) ==
  /\ c_pc[t] = "l67"
  /\ c_seen' = [c_seen EXCEPT ![t] = << current_position_x, current_position_y >>]
  /\ c_pc' = [c_pc EXCEPT ![t] = "l74"]
  /\ UNCHANGED << odom_in, current_position_x, current_position_y, nPose,
                  c_msg, c_match >>
  /\ nodeRestSame /\ UNCHANGED otherThanC

\* line 74: publish_odom reads the position again for match
publish_odom_l74(t) ==
  /\ c_pc[t] = "l74"
  /\ c_match' = [c_match EXCEPT ![t] = << current_position_x, current_position_y >>]
  /\ c_pc' = [c_pc EXCEPT ![t] = "done"]
  /\ UNCHANGED << odom_in, current_position_x, current_position_y, nPose,
                  c_msg, c_seen >>
  /\ nodeRestSame /\ UNCHANGED otherThanC

NextC ==
  \/ \E t \in Threads : \E m \in PoseMsgs : odom_in_callback_enter(t, m[1], m[2])
  \/ \E t \in Threads : odom_in_callback_l53(t)
  \/ \E t \in Threads : odom_in_callback_l54(t)
  \/ \E t \in Threads : odom_in_callback_l55(t)
  \/ \E t \in Threads : publish_odom_l67(t)
  \/ \E t \in Threads : publish_odom_l74(t)
  \/ \E msg \in CloudMsgs : left_curb_points_callback(msg)
  \/ \E msg \in CloudMsgs : right_curb_points_callback(msg)

SpecC == InitC /\ [][NextC]_vars

TypeOK ==
  /\ path_roads \in PathSet
  /\ pc \in {"idle", "locate", "resolve", "extract", "centerline", "publish", "crashed"}
  /\ nPose \in 0..MaxPoses
  /\ Len(published) <= nPose


\* ------------------------------------------------------------ properties
Ran(step) == step \in Range(ran)

\* publications made during the cycle of the latest pose update
PubsThisCycle ==
  Cardinality({ i \in 1..Len(published) : published[i].cycle = nPose })

\* the failures of sections 4.1 and 4.2 of the specification, as they show in
\* the state: no lane under the position, no lane section resolved
LocateFailed == Ran("locate") /\ current_lane = NoLane
ResolveFailed == Ran("resolve") /\ target_lanesection = NoSection
CycleFailed == LocateFailed \/ ResolveFailed
CycleOver == nPose > 0 /\ pc \in {"idle", "crashed"}

IsLastPathEntry(rid) == path_roads[Len(path_roads)].road = rid

\* C1: a cycle in which locating the lane or resolving the lane section
\* failed publishes nothing for that update and leaves the node alive to
\* take the next pose update.
ClaimC1 == CycleFailed => (PubsThisCycle = 0 /\ pc # "crashed")

\* C2: once a cycle is over it has published exactly one pose if it was
\* successful and none otherwise, and the node is then back in idle; the
\* publications never outnumber the pose updates.
ClaimC2 ==
  /\ Len(published) <= nPose
  /\ CycleOver => /\ pc = "idle"
                  /\ PubsThisCycle = IF CycleFailed THEN 0 ELSE 1

\* C3: the resolver goes to the next road exactly when the located lane has
\* id <= 0 and s + lookahead > length, or id > 0 and s - lookahead < 0;
\* otherwise the target is the current road and its section at s.
ClaimC3 ==
  (Ran("resolve") /\ current_lane # NoLane) =>
     /\ crossed <=> \/ (current_lane.id <= 0 /\ s + LOOKAHEAD > Roads[road_id].length)
                    \/ (current_lane.id > 0 /\ s - LOOKAHEAD < 0)
     /\ ~crossed => /\ target_road = road_id
                    /\ target_lanesection = get_lanesection(road_id, s)

\* C4: when the look-ahead crosses the boundary of the road that is the last
\* entry of the path, the cycle never goes on to curb extraction.
ClaimC4 ==
  (Ran("resolve") /\ crossed /\ IsLastPathEntry(road_id)) => ~Ran("extract")

\* C5: with a lane section resolved, a missing shoulder lane is never
\* dereferenced.
ClaimC5 ==
  target_lanesection # NoSection => ub \cap {"right_curb", "left_curb"} = {}

ThmC7 ==
  (Ran("resolve") /\ crossed) =>
     /\ next_s >= 0
     /\ next_s \in { Roads[road_id].length - (s + LOOKAHEAD),
                     (s + LOOKAHEAD) - Roads[road_id].length }
     /\ (LOOKAHEAD = 20) => NextS(40, 35) = 15

WitC7 ==
  /\ Ran("resolve") /\ crossed /\ current_lane # NoLane
  /\ s + LOOKAHEAD > Roads[road_id].length
  /\ next_s = 13

\* C8: of a resolved lane section the extractor takes as right curb only a
\* shoulder lane of that section with id <= 0 and as left curb only a shoulder
\* lane of that section with id > 0.
ThmC8 ==
  (Ran("extract") /\ target_lanesection # NoSection) =>
     LET lanes == Range(SectionOf(target_lanesection).lanes)
     IN  /\ right_curb \in {NoLane} \cup
              { l \in lanes : l.type = "shoulder" /\ l.id <= 0 }
         /\ left_curb \in {NoLane} \cup
              { l \in lanes : l.type = "shoulder" /\ l.id > 0 }
         /\ (right_curb = NoLane) <=>
              ~ \E l \in lanes : l.type = "shoulder" /\ l.id <= 0
         /\ (left_curb = NoLane) <=>
              ~ \E l \in lanes : l.type = "shoulder" /\ l.id > 0

WitC8 ==
  /\ Ran("extract") /\ target_lanesection = [road |-> "953", idx |-> 1]
  /\ right_curb.id = -2 /\ left_curb = NoLane

\* C10: a pose is published only in a cycle that ran, in this order, locating,
\* resolving, extracting and matching.
ClaimC10 ==
  PubsThisCycle > 0 =>
     \E i, j, k, m \in DOMAIN ran :
        /\ i < j /\ j < k /\ k < m
        /\ ran[i] = "locate" /\ ran[j] = "resolve"
        /\ ran[k] = "extract" /\ ran[m] = "match"


\* C9: the output cloud has a point for every input point, in order, each
\* being R(p) + t for the pose's rotation R and position t.
ClaimC9 ==
  tpc = "done" =>
     /\ Len(out_cloud) = Len(in_cloud)
     /\ \A i \in 1..Len(in_cloud) :
          out_cloud[i] = VecAdd(MatVec(toRotationMatrix(odom.orientation), in_cloud[i]),
                                odom.position)


\* the coordinates of the points of a cloud message, in order
XYZ(msg) == [i \in 1..Len(msg) |-> << msg[i].x, msg[i].y, msg[i].z >>]

\* C13: each side's stored cloud is at all times the cloud of the message that
\* side received last, and a step that changes one side's cloud changes
\* neither the other side's cloud nor the pose cells nor what was published.
ThmC13 ==
  /\ [](/\ left_curb_points = XYZ(last_left_msg)
        /\ right_curb_points = XYZ(last_right_msg))
  /\ [][ /\ left_curb_points' # left_curb_points =>
              /\ right_curb_points' = right_curb_points
              /\ odom_in' = odom_in
              /\ current_position_x' = current_position_x
              /\ current_position_y' = current_position_y
              /\ published' = published /\ pc' = pc
         /\ right_curb_points' # right_curb_points =>
              /\ left_curb_points' = left_curb_points
              /\ odom_in' = odom_in
              /\ current_position_x' = current_position_x
              /\ current_position_y' = current_position_y
              /\ published' = published /\ pc' = pc ]_vars

WitC13 ==
  /\ pc = "publish" /\ nPose = 2
  /\ left_curb_points = << << 1, 0, 0 >>, << 0, 1, 0 >> >>
  /\ right_curb_points = << << 1, 0, 0 >> >>
  /\ odom_in.x = 25

\* C15: publish_odom never dereferences an output pose that was not assigned,
\* and never publishes one.
ClaimC15 ==
  /\ "odom_out" \notin ub
  /\ \A i \in 1..Len(published) : published[i].msg # "unset"

\* C16: on a crossing from an arc-length within the current road, the overflow
\* is at most the look-ahead and the arc-length queried on the next road lies
\* within [0, next road length].
ClaimC16 ==
  (Ran("resolve") /\ crossed /\ current_lane # NoLane) =>
     /\ next_s <= LOOKAHEAD
     /\ target_from > 0 =>
          (0 <= queried_s /\ queried_s <= Roads[target_road].length)

Occurrences(rid) ==
  Cardinality({ i \in 1..Len(path_roads) : path_roads[i].road = rid })

\* C17: on a crossing from a road that the path names not at all or more than
\* once, the cycle is either aborted or the target road and section are both
\* set, from the path entry that follows an entry naming the road.
ClaimC17 ==
  (Ran("resolve") /\ crossed /\ current_lane # NoLane
     /\ Occurrences(road_id) # 1) =>
     \/ (pc = "idle" /\ ~Ran("extract"))
     \/ /\ target_from > 1
        /\ path_roads[target_from - 1].road = road_id
        /\ target_road = path_roads[target_from].road
        /\ target_lanesection # NoSection
        /\ target_lanesection.road = target_road


\* the displacement of a candidate point of the model from the curb line along
\* the y axis between y = 0 and y = 4
DispY(p) ==
  << 0 - p[1], (IF p[2] < 0 THEN 0 ELSE IF p[2] > 4 THEN 4 ELSE p[2]) - p[2], 0 - p[3] >>

CandDisp == [i \in 1..Len(candidate_cloud) |-> DispY(candidate_cloud[i])]

ConfIsZero == est.confidence.num2 = 0 /\ est.confidence.den > 0
ConfIsOne ==
  est.confidence.den > 0 /\ est.confidence.num2 = est.confidence.den * est.confidence.den

\* C11: the confidence is a defined ratio (denominator not 0), and it is 0 when
\* the candidate cloud is empty or every displacement vector is zero.
ThmC11 ==
  e_pc = "done" =>
     /\ est.confidence.den > 0
     /\ (\A i \in 1..Len(candidate_cloud) : CandDisp[i] = << 0, 0, 0 >>) => ConfIsZero

WitC11 ==
  /\ e_pc = "done"
  /\ candidate_cloud = << << 0, 1, 0 >>, << 0, 1, 0 >> >>
  /\ ConfIsZero

MeanIs(v) ==
  /\ est.translation.den > 0
  /\ est.translation.num = << v[1] * est.translation.den, v[2] * est.translation.den,
                              v[3] * est.translation.den >>

MeanOfDisplacements ==
  /\ est.translation.den = (IF candidate_cloud = << >> THEN 1 ELSE Len(candidate_cloud))
  /\ \A k \in 1..3 :
       est.translation.num[k] =
         (IF Len(candidate_cloud) >= 1 THEN CandDisp[1][k] ELSE 0)
         + (IF Len(candidate_cloud) >= 2 THEN CandDisp[2][k] ELSE 0)
         + (IF Len(candidate_cloud) >= 3 THEN CandDisp[3][k] ELSE 0)
         + (IF Len(candidate_cloud) >= 4 THEN CandDisp[4][k] ELSE 0)

ConfInUnitInterval ==
  /\ est.confidence.den > 0 /\ est.confidence.num2 >= 0
  /\ est.confidence.num2 <= est.confidence.den * est.confidence.den

AllIdenticalNonZero ==
  /\ candidate_cloud # << >>
  /\ \A i \in 1..Len(candidate_cloud) :
       CandDisp[i] = CandDisp[1] /\ CandDisp[i] # << 0, 0, 0 >>

\* the displacement vectors are not all zero, and any two of them point the
\* same way (one is a non-negative multiple of the other)
AllSameDirection ==
  /\ \E i \in 1..Len(candidate_cloud) : CandDisp[i] # << 0, 0, 0 >>
  /\ \A i, j \in 1..Len(candidate_cloud) :
       /\ Cross(CandDisp[i], CandDisp[j]) = << 0, 0, 0 >>
       /\ Dot(CandDisp[i], CandDisp[j]) >= 0

ScenarioC ==
  candidate_cloud = << << -1, 1, 0 >>, << -1, 2, 0 >>, << -1, 3, 0 >> >>
ScenarioD == candidate_cloud = << << -1, 1, 0 >>, << 1, 1, 0 >> >>

\* C12 as stated: the translation is the mean of the displacement vectors, the
\* confidence is in [0,1] and is 1 exactly when all displacement vectors are
\* identical and non-zero.
ClaimC12 ==
  e_pc = "done" =>
     /\ MeanOfDisplacements
     /\ ConfInUnitInterval
     /\ ConfIsOne <=> AllIdenticalNonZero

\* C12 as amended: the translation is the mean of the displacement vectors; the
\* confidence is in [0,1]; it is 1 when all displacement vectors are identical
\* and non-zero, and more generally exactly when they are not all zero and all
\* point the same way; scenario C gives (1,0,0) with confidence 1 and scenario
\* D gives (0,0,0) with confidence 0.
ThmC12 ==
  e_pc = "done" =>
     /\ MeanOfDisplacements
     /\ ConfInUnitInterval
     /\ AllIdenticalNonZero => ConfIsOne
     /\ ConfIsOne <=> AllSameDirection
     /\ ScenarioC => (MeanIs(<< 1, 0, 0 >>) /\ ConfIsOne)
     /\ ScenarioD => (MeanIs(<< 0, 0, 0 >>) /\ ConfIsZero)

WitC12 == e_pc = "done" /\ ScenarioC /\ ConfIsOne /\ MeanIs(<< 1, 0, 0 >>)


\* the pairs (i, j) of positions in lane_start and lane_end whose route exists
\* with a non-empty shortest path and a non-empty full lane
ValidPairs ==
  { pr \in (1..Len(lane_start)) \X (1..Len(lane_end)) :
      LET r == getRoute(lane_start[pr[1]], lane_end[pr[2]])
      IN  r.found /\ r.shortestPath # << >> /\ r.fullLane # << >> }

PairLength(pr) == getRoute(lane_start[pr[1]], lane_end[pr[2]]).length2d

\* the order in which the two loops visit the pairs
Before(pr, qr) == pr[1] < qr[1] \/ (pr[1] = qr[1] /\ pr[2] < qr[2])

\* C18: the route is the full lane of the valid pair of minimum length, the
\* first such pair in loop order, and empty when no pair is valid; plan_route
\* returns TRUE exactly when the route is not empty, so FALSE when no nearest
\* lanelet was found for the start or for the goal.
ThmC18 ==
  p_pc = "done" =>
     /\ lane_start = nearest_lanelets_start /\ lane_end = nearest_lanelets_end
     /\ IF ValidPairs = {} THEN route = << >>
        ELSE \E pr \in ValidPairs :
               /\ route = getRoute(lane_start[pr[1]], lane_end[pr[2]]).fullLane
               /\ \A qr \in ValidPairs :
                    /\ PairLength(qr) >= PairLength(pr)
                    /\ Before(qr, pr) => PairLength(qr) > PairLength(pr)
     /\ plan_result <=> (route # << >>)
     /\ (nearest_lanelets_start = << >> \/ nearest_lanelets_end = << >>) => ~plan_result

WitC18 ==
  /\ p_pc = "done"
  /\ lane_start = << 1, 4 >> /\ lane_end = << 4, 3 >>
  /\ route = << 1, 2, 4 >> /\ plan_result


\* C19: the frame made from the result of to_system_frame has the identifier
\* and the data the frame was made with, and to_system_frame reports a data
\* length of 8.
ThmC19 ==
  /\ f_pc \in {"system", "done"} =>
        /\ system_frame.can_dlc = 8
        /\ system_frame.can_id = arg_identifier
  /\ f_pc = "done" =>
        /\ frame_back.identifier = arg_identifier
        /\ frame_back.data = arg_data

WitC19 ==
  /\ f_pc = "done"
  /\ arg_identifier = 2047
  /\ arg_data = << 258, 0, 65535, 1 >>
  /\ system_frame.data = << 2, 1, 0, 0, 255, 255, 1, 0 >>
  /\ frame_back = [identifier |-> 2047, data |-> << 258, 0, 65535, 1 >>]


\* the positions of the pose messages the threads have taken so far
TakenPoses == { << c_msg[t].x, c_msg[t].y >> : t \in { u \in Threads : c_pc[u] \notin {"none", "idle"} } }

====
